---- MODULE Spec2Model ----
(***************************************************************************)
(* Model of src/bitbucketcli.py: one run of the command line client, from  *)
(* construction of BitbucketCLI (argument parsing, credential resolution)  *)
(* through main() and the dispatched command, with every remote call of    *)
(* the Bitbucket client as one step whose outcome the service chooses.     *)
(* A second specification calls create_repository directly, as a library   *)
(* user may.                                                               *)
(***************************************************************************)
EXTENDS Naturals, Sequences, FiniteSets, TLC

VARIABLES
    argv,           \* sys.argv[1:], as the flags given per parser level
    env,            \* os.environ: BITBUCKET_USER, BITBUCKET_PASSWORD
    pc,             \* position of the run
    args,           \* self.__args, the parsed namespace (NoArgs before parsing)
    for_scripting,  \* self.__for_scripting
    username,       \* self.__username
    password,       \* self.__password
    bbc,            \* self.__bbc, the lazily created client (NoClient before)
    prompts,        \* number of getpass.getpass calls made
    calls,          \* remote calls issued so far, in order, with their outcome
    executed,       \* dispatch-table actions entered so far, in order
    workspace,      \* local: resolved workspace handle
    project,        \* local: resolved project handle
    cr,             \* parameters of the pending create_repository call
    created,        \* value create_repository returned
    stdout,         \* lines written to standard output
    stderr,         \* lines written to standard error
    exit_code       \* process exit status (NoExit while running)

vars == <<argv, env, pc, args, for_scripting, username, password, bbc, prompts,
          calls, executed, workspace, project, cr, created, stdout, stderr,
          exit_code>>

-----------------------------------------------------------------------------
(* Python values *)

None == "None"
PyTrue == "True"
PyFalse == "False"

\* Python truthiness of a str-or-None value.
Truthy(v) == v # None /\ v # ""

\* Mutant of PyOr: the second operand is preferred.
PyOr_second_first(a, b) == IF b # None /\ b # "" THEN b ELSE a

\* Python's `a or b`.
PyOr(a, b) == IF Truthy(a) THEN a ELSE b

-----------------------------------------------------------------------------
(* Bounds of the model *)

\* longest enumeration the service returns
MaxItems == 2

-----------------------------------------------------------------------------
(* The command line *)

Subcommands == {"tests", "workspace", "project", "repository", "repo"}
RepoSubcommands == {"show", "create"}
ShowFlags == {"links", "https_url", "ssh_url"}
VisibilityFlags == {"public", "private"}
ForkFlags == {"allow_forks", "no_allow_forks", "no_public_forks"}

UserValues == {None, "", "alice"}
PasswordValues == {None, "", "secret"}
EnvUserValues == {None, "bob"}
EnvPasswordValues == {None, "envsecret"}
TypedPasswords == {"", "typed"}

WorkspaceNames == {None, "team-a"}
ProjectNames == {None, "PRJ"}
RepositoryNames == {None, "newrepo"}

\* The options a subparser does not define are not given (argparse would
\* reject them as unrecognized arguments); the nested action's flags are
\* given only after its token.
WellPlaced(a) ==
    /\ a.subcommand \in {None, "tests"} =>
          /\ ~a.list /\ a.workspace = None /\ a.project = None
          /\ a.repository = None /\ a.repo_subcommand = None
    /\ a.subcommand = "workspace" =>
          a.project = None /\ a.repository = None /\ a.repo_subcommand = None
    /\ a.subcommand = "project" =>
          a.repository = None /\ a.repo_subcommand = None
    /\ a.repo_subcommand # "show" => a.show = {}
    /\ a.repo_subcommand # "create" => a.visibility = {} /\ a.fork = {}

ArgvSet ==
    { a \in [ version : BOOLEAN,
              user : UserValues,
              password : PasswordValues,
              for_scripting : BOOLEAN,
              subcommand : Subcommands \cup {None},
              list : BOOLEAN,
              workspace : WorkspaceNames,
              project : ProjectNames,
              repository : RepositoryNames,
              repo_subcommand : RepoSubcommands \cup {None},
              show : SUBSET ShowFlags,
              visibility : SUBSET VisibilityFlags,
              fork : SUBSET ForkFlags ] : WellPlaced(a) }

EnvSet == [ BITBUCKET_USER : EnvUserValues, BITBUCKET_PASSWORD : EnvPasswordValues ]

-----------------------------------------------------------------------------
(* argparse, as this program configures it *)

Ok == [status |-> "ok", msg |-> ""]
ParserError(m) == [status |-> "error", msg |-> m]
ParserExit(m) == [status |-> "exit", msg |-> m]

VersionText == "bitbucketcli.py Bitbucket CLI 1.0"
UsageHelp == "usage: bitbucketcli.py [-h] [--version] [--user USER] ..."

\* add_mutually_exclusive_group: given is the set of the group's options
\* present on the command line.
MutexConflict(given) == Cardinality(given) > 1
\* Mutant of MutexMissing: the groups are not required.
MutexMissing_not_required(given) == FALSE
MutexMissing(given) == given = {}

\* The options of one (list, name) group that are present.
ListOrName(a, name) ==
    (IF a.list THEN {"list"} ELSE {}) \cup (IF name # None THEN {"name"} ELSE {})

create_workspace_subparser(a) ==
    IF MutexConflict(ListOrName(a, a.workspace))
    THEN ParserError("argument --workspace/-w: not allowed with argument --list/-l")
    ELSE IF MutexMissing(ListOrName(a, a.workspace))
    THEN ParserError("one of the arguments --list/-l --workspace/-w is required")
    ELSE Ok

create_project_subparser(a) ==
    IF MutexConflict(ListOrName(a, a.project))
    THEN ParserError("argument --project/-P: not allowed with argument --list/-l")
    ELSE IF a.workspace = None
    THEN ParserError("the following arguments are required: --workspace/-w")
    ELSE IF MutexMissing(ListOrName(a, a.project))
    THEN ParserError("one of the arguments --list/-l --project/-P is required")
    ELSE Ok

\* The nested parsers show and create (lines 209-231).
repo_action_subparser(a) ==
    IF a.repo_subcommand = "create" /\ MutexConflict(a.visibility)
    THEN ParserError("argument --private: not allowed with argument --public")
    ELSE IF a.repo_subcommand = "create" /\ MutexConflict(a.fork)
    THEN ParserError("argument --no-allow-forks: not allowed with argument --allow-forks")
    ELSE Ok

\* required is subparser_subs.required at the time of the parse.
create_repository_subparser(a, required) ==
    IF MutexConflict(ListOrName(a, a.repository))
    THEN ParserError("argument --repository/-r: not allowed with argument --list/-l")
    ELSE IF repo_action_subparser(a).status # "ok"
    THEN repo_action_subparser(a)
    ELSE IF a.workspace = None \/ a.project = None
            \/ (required /\ a.repo_subcommand = None)
    THEN ParserError("the following arguments are required")
    ELSE IF MutexMissing(ListOrName(a, a.repository))
    THEN ParserError("one of the arguments --list/-l --repository/-r is required")
    ELSE Ok

\* The top-level parser: --version acts as soon as it is read, the
\* subcommand is required, and the chosen subparser parses the rest.
get_parser(a, required) ==
    IF a.version THEN ParserExit(VersionText)
    ELSE IF a.subcommand = None
    THEN ParserError("the following arguments are required: subcommand")
    ELSE IF a.subcommand = "workspace" THEN create_workspace_subparser(a)
    ELSE IF a.subcommand = "project" THEN create_project_subparser(a)
    ELSE IF a.subcommand \in {"repository", "repo"}
    THEN create_repository_subparser(a, required)
    ELSE Ok

\* Mutant of subparser_subs_required: the nested action stays optional.
subparser_subs_never_required(temp_args) == FALSE

\* Lines 233-239: the nested action becomes required when the first parse
\* finds the repository subcommand with a repository name.
subparser_subs_required(temp_args) ==
    LET has_repo == temp_args.subcommand = "repository" \/ temp_args.subcommand = "repo"
        has_repo_name == IF has_repo THEN temp_args.repository # None ELSE FALSE
    IN  has_repo_name

\* The namespace argparse builds from a command line it accepts.
Namespace(a) ==
    [ user |-> a.user,
      password |-> a.password,
      for_scripting |-> a.for_scripting,
      subcommand |-> a.subcommand,
      list |-> a.list,
      workspace |-> a.workspace,
      project |-> a.project,
      repository |-> a.repository,
      repo_subcommand |-> a.repo_subcommand,
      links |-> "links" \in a.show,
      https_url |-> "https_url" \in a.show,
      ssh_url |-> "ssh_url" \in a.show,
      public |-> "public" \in a.visibility,
      private |-> "private" \in a.visibility,
      allow_forks |-> "allow_forks" \in a.fork,
      no_allow_forks |-> "no_allow_forks" \in a.fork,
      no_public_forks |-> "no_public_forks" \in a.fork ]

\* self.__args before parse_args has run.
NoArgs ==
    [ user |-> None, password |-> None, for_scripting |-> FALSE,
      subcommand |-> None, list |-> FALSE, workspace |-> None, project |-> None,
      repository |-> None, repo_subcommand |-> None,
      links |-> FALSE, https_url |-> FALSE, ssh_url |-> FALSE,
      public |-> FALSE, private |-> FALSE, allow_forks |-> FALSE,
      no_allow_forks |-> FALSE, no_public_forks |-> FALSE ]

args_verify_repo_show_actions(n) ==
    IF n.links /\ n.subcommand # "repository" /\ n.subcommand # "repo"
    THEN ParserError("Error: --links (-L) is only valid for repository operations.")
    ELSE IF n.links /\ n.repository = None
    THEN ParserError("Error: --repository (-r) is required with --links (-L).")
    ELSE IF n.https_url /\ n.subcommand # "repository" /\ n.subcommand # "repo"
    THEN ParserError("Error: --https-url (-u) is only valid for repository operations.")
    ELSE IF n.https_url /\ n.repository = None
    THEN ParserError("Error: --repository (-r) is required with --https-url (-u).")
    ELSE IF n.ssh_url /\ n.subcommand # "repository" /\ n.subcommand # "repo"
    THEN ParserError("Error: --ssh-url (-s) is only valid for repository operations.")
    ELSE IF n.ssh_url /\ n.repository = None
    THEN ParserError("Error: --repository (-r) is required with --ssh-url (-s).")
    ELSE Ok

\* Mutant of args_verify_repo_actions: the show flags are not verified.
args_verify_repo_actions_skipped(n) == Ok

args_verify_repo_actions(n) ==
    IF n.repo_subcommand = "show" THEN args_verify_repo_show_actions(n) ELSE Ok

-----------------------------------------------------------------------------
(* The hosting service, seen through the client library *)

\* A handle is the record the service returned, wrapped.
NoHandle == [kind |-> "None"]
NoClient == [kind |-> "None"]

WorkspaceRecords ==
    { [kind |-> "workspace", name |-> "teamA", slug |-> "team-a"],
      [kind |-> "workspace", name |-> "teamB", slug |-> "team-b"] }

ProjectRecords ==
    { [kind |-> "project", name |-> "Project One", key |-> "PRJ"] }

\* links: the link relations in the order the service lists them; clone is
\* the list of checkout links.
RepositoryRecords ==
    { [kind |-> "repository", name |-> "New Repo", slug |-> "newrepo",
       links |-> <<"self", "clone">>,
       clone |-> <<"https://bitbucket.org/team-a/newrepo.git",
                   "git@bitbucket.org:team-a/newrepo.git">>],
      [kind |-> "repository", name |-> "Old Repo", slug |-> "oldrepo",
       links |-> <<"self", "clone">>,
       clone |-> <<"https://bitbucket.org/team-a/oldrepo.git">>] }

\* The sequences of at most n elements of S.
SeqUpTo(S, n) == UNION { [1..k -> S] : k \in 0..n }

\* A remote call either returns (ok) or raises; the exception propagates to
\* the top level (no handler in the program).
Call(op, ok) == [op |-> op, ok |-> ok]

ALLOW_FORKS == "allow_forks"
NO_FORKS == "no_forks"
NO_PUBLIC_FORKS == "no_public_forks"
FORK_POLICIES == {ALLOW_FORKS, NO_PUBLIC_FORKS, NO_FORKS}

-----------------------------------------------------------------------------
(* Output *)

\* One printed line: the text is label, value and suffix concatenated.
Line(label, value, suffix) == [label |-> label, value |-> value, suffix |-> suffix]

Text(l) == l.label \o l.value \o l.suffix

HelpLine == Line("", UsageHelp, "")

-----------------------------------------------------------------------------
(* The run *)

NoCall == [caller |-> "none"]

Init ==
    /\ argv \in ArgvSet
    /\ env \in EnvSet
    /\ pc = "init"
    /\ args = NoArgs
    /\ for_scripting = FALSE
    /\ username = None
    /\ password = None
    /\ bbc = NoClient
    /\ prompts = 0
    /\ calls = <<>>
    /\ executed = <<>>
    /\ workspace = NoHandle
    /\ project = NoHandle
    /\ cr = NoCall
    /\ created = NoHandle
    /\ stdout = <<>>
    /\ stderr = <<>>
    /\ exit_code = <<>>

\* sys.exit(code) after writing out and err.
Exit(code, out, err) ==
    /\ pc' = "exit"
    /\ exit_code' = <<code>>
    /\ stdout' = stdout \o out
    /\ stderr' = stderr \o err

\* parser.error(message): usage and message to standard error, status 2.
parser_error(m) == Exit(2, <<>>, <<Line("", UsageHelp, ""), Line("", m, "")>>)

\* An exception nobody catches: traceback to standard error, status 1,
\* after the lines already printed.
Raise(exc, out) == Exit(1, out, <<Line("", exc, "")>>)

\* The bbc property: the client is created on first use.
bbc_property == IF bbc = NoClient
                THEN [kind |-> "client", username |-> username, password |-> password]
                ELSE bbc

\* The outcome of the two parses of construction: the one of line 233,
\* made while the nested action is still optional, then parse_args.
parse_args(a) ==
    LET temp_args == get_parser(a, FALSE)
    IN  IF temp_args.status # "ok" THEN temp_args
        ELSE get_parser(a, subparser_subs_required(Namespace(a)))

\* Mutant of credential_check: the password is asked for before the
\* username is looked at.
credential_check_prompt_first(u, p, subcommand) ==
    IF p = None /\ subcommand # "tests" THEN "prompt"
    ELSE IF u = None /\ subcommand # "tests" THEN "error"
    ELSE "ok"

\* Lines 318-322: what the resolved credentials lead to.
credential_check(u, p, subcommand) ==
    IF u = None /\ subcommand # "tests" THEN "error"
    ELSE IF p = None /\ subcommand # "tests" THEN "prompt"
    ELSE "ok"

\* BitbucketCLI.__init__ and __parse_arguments.
parse_arguments ==
    /\ pc = "init"
    /\ LET parsed == parse_args(argv)
           n == Namespace(argv)
           u == PyOr(n.user, env.BITBUCKET_USER)
           p == PyOr(n.password, env.BITBUCKET_PASSWORD)
           verified == IF n.subcommand = "repository" \/ n.subcommand = "repo"
                       THEN args_verify_repo_actions(n) ELSE Ok
       IN  IF parsed.status = "exit"
           THEN /\ Exit(0, <<Line("", parsed.msg, "")>>, <<>>)
                /\ UNCHANGED <<args, username, password, prompts>>
           ELSE IF parsed.status = "error"
           THEN /\ parser_error(parsed.msg)
                /\ UNCHANGED <<args, username, password, prompts>>
           ELSE /\ args' = n
                /\ username' = u
                /\ IF verified.status # "ok"
                   THEN /\ parser_error(verified.msg)
                        /\ password' = p
                        /\ UNCHANGED prompts
                   ELSE IF credential_check(u, p, n.subcommand) = "error"
                   THEN /\ parser_error("Error: Bitbucket username is required.")
                        /\ password' = p
                        /\ UNCHANGED prompts
                   ELSE IF credential_check(u, p, n.subcommand) = "prompt"
                   THEN /\ \E typed \in TypedPasswords : password' = typed
                        /\ prompts' = prompts + 1
                        /\ pc' = "main"
                        /\ UNCHANGED <<exit_code, stdout, stderr>>
                   ELSE /\ password' = p
                        /\ pc' = "main"
                        /\ UNCHANGED <<prompts, exit_code, stdout, stderr>>
    /\ UNCHANGED <<argv, env, for_scripting, bbc, calls, executed, workspace,
                   project, cr, created>>

\* Mutant of main_program: project is handled as workspace.
main_program_project_as_workspace(n) ==
    IF n.subcommand = "workspace" \/ n.subcommand = "project" THEN "workspace_cmd"
    ELSE IF n.subcommand = "repository" \/ n.subcommand = "repo" THEN "repo_cmd"
    ELSE "print_help"

\* main_program: the handler the subcommand selects.
main_program(n) ==
    IF n.subcommand = "workspace" THEN "workspace_cmd"
    ELSE IF n.subcommand = "project" THEN "project_cmd"
    ELSE IF n.subcommand = "repository" \/ n.subcommand = "repo" THEN "repo_cmd"
    ELSE "print_help"

\* main(): the self tests, or main_program.
main ==
    /\ pc = "main"
    /\ LET target == IF args.subcommand = "tests" THEN "tests" ELSE main_program(args)
       IN  IF target = "print_help"
           THEN Exit(0, <<HelpLine>>, <<>>)
           ELSE /\ pc' = target
                /\ UNCHANGED <<exit_code, stdout, stderr>>
    /\ UNCHANGED <<argv, env, args, for_scripting, username, password, bbc,
                   prompts, calls, executed, workspace, project, cr, created>>

\* unittest.main(argv=[__file__]): runs the tests and exits with their result.
tests ==
    /\ pc = "tests"
    /\ executed' = Append(executed, "tests")
    /\ \E code \in {0, 1} : Exit(code, <<>>, <<>>)
    /\ UNCHANGED <<argv, env, args, for_scripting, username, password, bbc,
                   prompts, calls, workspace, project, cr, created>>

-----------------------------------------------------------------------------
(* The formatter: the lines each output routine prints; scripting is the   *)
(* value of self.__for_scripting the routine reads.                        *)

Map(s, F(_)) == [i \in 1..Len(s) |-> F(s[i])]

NameSlug(r) == r.name \o " (" \o r.slug \o ")"
NameKey(r) == r.name \o " (" \o r.key \o ")"

list_workspaces_line(w) == Line("Workspace: ", NameSlug(w), "")

list_projects_line(p, scripting) ==
    LET prefix == IF scripting THEN "" ELSE "Project: "
    IN  Line(prefix, NameKey(p), "")

list_repositories_line(r, p, w, scripting) ==
    LET prefix == IF scripting THEN "" ELSE "Repository: "
        suffix == IF scripting THEN ""
                  ELSE " in Project: " \o NameKey(p) \o " in "
                       \o "Workspace: " \o NameSlug(w)
    IN  Line(prefix, NameSlug(r) \o " in ", suffix)

workspace_summary(w, scripting) ==
    IF ~scripting THEN <<Line("Workspace: ", NameSlug(w), "")>> ELSE <<>>

project_summary(p, scripting) ==
    IF ~scripting THEN <<Line("Project: ", NameKey(p), "")>> ELSE <<>>

\* The value of one link relation, as Python prints it.
LinkTarget(r, rel) == IF rel = "clone" THEN "[clone links]" ELSE "{'href': ...}"

print_repository_links(r, scripting) ==
    LET prefix == IF scripting THEN "" ELSE "Link: "
        link_line(rel) == Line(prefix, rel \o " -> " \o LinkTarget(r, rel), "")
    IN  Map(r.links, link_line)

print_repository_https_url(r, scripting) ==
    IF scripting THEN Line("", r.clone[1], "") ELSE Line("HTTPS URL: ", r.clone[1], "")

print_repository_ssh_url(r, scripting) ==
    IF scripting THEN Line("", r.clone[2], "") ELSE Line("SSH URL: ", r.clone[2], "")

repo_show_header(r, p, w, scripting) ==
    IF ~scripting
    THEN <<Line("Repository: ", r.name,
                " in Project: " \o p.name \o " in Workspace: " \o w.name)>>
    ELSE <<>>

create_confirmation(r, p, w, scripting) ==
    IF ~scripting
    THEN <<Line("Repository: ", r.name,
                " created in Project: " \o p.name \o " in Workspace: " \o w.name)>>
    ELSE <<>>

-----------------------------------------------------------------------------
(* Remote calls *)

\* What an enumeration delivers: the records yielded, and whether it ran to
\* its end (ok) or a page request raised after them.
EachOutcomes(records) == [ok : BOOLEAN, value : SeqUpTo(records, MaxItems)]

\* What a lookup by name delivers: a record, or an exception.
GetOutcomes(records) ==
    [ok : {TRUE}, value : records] \cup {[ok |-> FALSE, value |-> NoHandle]}

RemoteError == "remote call raised"

\* workspace_cmd.
workspace_cmd ==
    /\ pc = "workspace_cmd"
    /\ IF args.list
       THEN \E o \in EachOutcomes(WorkspaceRecords) :
              /\ bbc' = bbc_property
              /\ executed' = Append(executed, "list workspaces")
              /\ calls' = Append(calls, Call("workspaces.each", o.ok))
              /\ workspace' = workspace
              /\ IF o.ok THEN Exit(0, Map(o.value, list_workspaces_line), <<>>)
                 ELSE Raise(RemoteError, Map(o.value, list_workspaces_line))
       ELSE IF args.workspace # None
       THEN \E o \in GetOutcomes(WorkspaceRecords) :
              /\ bbc' = bbc_property
              /\ executed' = Append(executed, "workspace summary")
              /\ calls' = Append(calls, Call("workspaces.get", o.ok))
              /\ workspace' = o.value
              /\ IF o.ok THEN Exit(0, workspace_summary(o.value, for_scripting), <<>>)
                 ELSE Raise(RemoteError, <<>>)
       ELSE /\ Exit(0, <<HelpLine>>, <<>>)
            /\ UNCHANGED <<bbc, executed, calls, workspace>>
    /\ UNCHANGED <<argv, env, args, for_scripting, username, password, prompts,
                   project, cr, created>>

\* Mutant of workspace_lookup: a failed lookup does not stop the command.
workspace_lookup_continues(next, what) ==
    \E o \in GetOutcomes(WorkspaceRecords) :
       /\ bbc' = bbc_property
       /\ calls' = Append(calls, Call("workspaces.get", o.ok))
       /\ workspace' = o.value
       /\ pc' = next
       /\ UNCHANGED <<exit_code, stdout, stderr>>

\* self.bbc[workspace_name] of project_cmd and repo_cmd, with the check
\* before it; next is the position after a successful lookup.
workspace_lookup(next, what) ==
    IF args.workspace = None
    THEN /\ parser_error("Error: --workspace (-w) is required for " \o what
                         \o " operations!")
         /\ UNCHANGED <<bbc, calls, workspace>>
    ELSE \E o \in GetOutcomes(WorkspaceRecords) :
           /\ bbc' = bbc_property
           /\ calls' = Append(calls, Call("workspaces.get", o.ok))
           /\ workspace' = o.value
           /\ IF o.ok
              THEN pc' = next /\ UNCHANGED <<exit_code, stdout, stderr>>
              ELSE Raise(RemoteError, <<>>)

\* project_cmd, up to the workspace lookup.
project_cmd ==
    /\ pc = "project_cmd"
    /\ workspace_lookup("project_cmd_action", "project")
    /\ UNCHANGED <<argv, env, args, for_scripting, username, password, prompts,
                   executed, project, cr, created>>

\* project_cmd, after the workspace lookup.
project_cmd_action ==
    /\ pc = "project_cmd_action"
    /\ IF args.list
       THEN \E o \in EachOutcomes(ProjectRecords) :
              LET lines == [i \in 1..Len(o.value) |->
                              list_projects_line(o.value[i], for_scripting)]
              IN  /\ executed' = Append(executed, "list projects")
                  /\ calls' = Append(calls, Call("projects.each", o.ok))
                  /\ project' = project
                  /\ IF o.ok THEN Exit(0, lines, <<>>) ELSE Raise(RemoteError, lines)
       ELSE IF args.project # None
       THEN \E o \in GetOutcomes(ProjectRecords) :
              /\ executed' = Append(executed, "project summary")
              /\ calls' = Append(calls, Call("projects.get", o.ok))
              /\ project' = o.value
              /\ IF o.ok THEN Exit(0, project_summary(o.value, for_scripting), <<>>)
                 ELSE Raise(RemoteError, <<>>)
       ELSE /\ Exit(0, <<HelpLine>>, <<>>)
            /\ UNCHANGED <<executed, calls, project>>
    /\ UNCHANGED <<argv, env, args, for_scripting, username, password, bbc,
                   prompts, workspace, cr, created>>

\* repo_cmd, up to the workspace lookup.
repo_cmd ==
    /\ pc = "repo_cmd"
    /\ workspace_lookup("repo_cmd_project", "repository")
    /\ UNCHANGED <<argv, env, args, for_scripting, username, password, prompts,
                   executed, project, cr, created>>

\* repo_cmd: workspace[project_name], with the check before it.
repo_cmd_project ==
    /\ pc = "repo_cmd_project"
    /\ IF args.project = None
       THEN /\ parser_error("Error: --project (-P) is required for repository operations!")
            /\ UNCHANGED <<calls, project>>
       ELSE \E o \in GetOutcomes(ProjectRecords) :
              /\ calls' = Append(calls, Call("projects.get", o.ok))
              /\ project' = o.value
              /\ IF o.ok
                 THEN pc' = "repo_cmd_action" /\ UNCHANGED <<exit_code, stdout, stderr>>
                 ELSE Raise(RemoteError, <<>>)
    /\ UNCHANGED <<argv, env, args, for_scripting, username, password, bbc,
                   prompts, executed, workspace, cr, created>>

\* __create_repository, lines 471-485: the parameters the flags select.
create_is_private(n) ==
    IF n.private THEN PyTrue ELSE IF n.public THEN PyFalse ELSE None

\* Mutant of create_fork_policy: two policy tokens exchanged.
create_fork_policy_swapped(n) ==
    IF n.allow_forks THEN ALLOW_FORKS
    ELSE IF n.no_allow_forks THEN NO_PUBLIC_FORKS
    ELSE IF n.no_public_forks THEN NO_FORKS
    ELSE None

create_fork_policy(n) ==
    IF n.allow_forks THEN ALLOW_FORKS
    ELSE IF n.no_allow_forks THEN NO_FORKS
    ELSE IF n.no_public_forks THEN NO_PUBLIC_FORKS
    ELSE None

create_call(n, p, w) ==
    [ caller |-> "cli", project |-> p, workspace |-> w,
      repository_name |-> n.repository,
      is_private |-> create_is_private(n),
      fork_policy |-> create_fork_policy(n) ]

\* Mutant of repo_cmd_branch: the show action runs the create branch.
repo_cmd_branch_show_creates(n) ==
    IF n.list THEN "list"
    ELSE IF n.repository # None
    THEN IF n.repo_subcommand = "show" THEN "create"
         ELSE IF n.repo_subcommand = "create" THEN "create"
         ELSE "help"
    ELSE "help"

\* The branch of repo_cmd taken once workspace and project are resolved.
repo_cmd_branch(n) ==
    IF n.list THEN "list"
    ELSE IF n.repository # None
    THEN IF n.repo_subcommand = "show" THEN "show"
         ELSE IF n.repo_subcommand = "create" THEN "create"
         ELSE "help"
    ELSE "help"

\* repo_cmd, after both lookups.
repo_cmd_action ==
    /\ pc = "repo_cmd_action"
    /\ LET branch == repo_cmd_branch(args)
       IN  IF branch = "list"
           THEN \E o \in EachOutcomes(RepositoryRecords) :
                  LET lines == [i \in 1..Len(o.value) |->
                                  list_repositories_line(o.value[i], project,
                                                         workspace, for_scripting)]
                  IN  /\ executed' = Append(executed, "list repositories")
                      /\ calls' = Append(calls, Call("repositories.each", o.ok))
                      /\ cr' = cr
                      /\ IF o.ok THEN Exit(0, lines, <<>>)
                         ELSE Raise(RemoteError, lines)
           ELSE IF branch = "show"
           THEN /\ executed' = Append(executed, "show repository")
                /\ pc' = "repo_show_cmd"
                /\ UNCHANGED <<calls, cr, exit_code, stdout, stderr>>
           ELSE IF branch = "create"
           THEN /\ executed' = Append(executed, "create repository")
                /\ cr' = create_call(args, project, workspace)
                /\ pc' = "create_repository"
                /\ UNCHANGED <<calls, exit_code, stdout, stderr>>
           ELSE /\ Exit(0, <<HelpLine>>, <<>>)
                /\ UNCHANGED <<executed, calls, cr>>
    /\ UNCHANGED <<argv, env, args, for_scripting, username, password, bbc,
                   prompts, workspace, project, created>>

\* Mutant of repo_show_output: the help is printed unless every detail flag
\* is set.
repo_show_output_help_unless_all(r, p, w, n, scripting) ==
    LET header == repo_show_header(r, p, w, scripting)
        links == IF n.links THEN print_repository_links(r, scripting) ELSE <<>>
        https_ok == n.https_url => Len(r.clone) >= 1
        https == IF n.https_url /\ https_ok
                 THEN <<print_repository_https_url(r, scripting)>> ELSE <<>>
        ssh_ok == n.ssh_url => Len(r.clone) >= 2
        ssh == IF n.ssh_url /\ ssh_ok
               THEN <<print_repository_ssh_url(r, scripting)>> ELSE <<>>
        help == IF ~n.links \/ ~n.https_url \/ ~n.ssh_url THEN <<HelpLine>> ELSE <<>>
    IN  IF ~https_ok THEN [ok |-> FALSE, lines |-> header \o links]
        ELSE IF ~ssh_ok THEN [ok |-> FALSE, lines |-> header \o links \o https]
        ELSE [ok |-> TRUE, lines |-> header \o links \o https \o ssh \o help]

\* The lines repo_show_cmd prints for repository r, and whether it returns
\* (ok) or an index into the clone links raises after them.
repo_show_output(r, p, w, n, scripting) ==
    LET header == repo_show_header(r, p, w, scripting)
        links == IF n.links THEN print_repository_links(r, scripting) ELSE <<>>
        https_ok == n.https_url => Len(r.clone) >= 1
        https == IF n.https_url /\ https_ok
                 THEN <<print_repository_https_url(r, scripting)>> ELSE <<>>
        ssh_ok == n.ssh_url => Len(r.clone) >= 2
        ssh == IF n.ssh_url /\ ssh_ok
               THEN <<print_repository_ssh_url(r, scripting)>> ELSE <<>>
        help == IF ~n.links /\ ~n.https_url /\ ~n.ssh_url THEN <<HelpLine>> ELSE <<>>
    IN  IF ~https_ok THEN [ok |-> FALSE, lines |-> header \o links]
        ELSE IF ~ssh_ok THEN [ok |-> FALSE, lines |-> header \o links \o https]
        ELSE [ok |-> TRUE, lines |-> header \o links \o https \o ssh \o help]

\* repo_show_cmd.
repo_show_cmd ==
    /\ pc = "repo_show_cmd"
    /\ \E o \in GetOutcomes(RepositoryRecords) :
         /\ calls' = Append(calls, Call("repositories.get", o.ok))
         /\ IF ~o.ok THEN Raise(RemoteError, <<>>)
            ELSE LET out == repo_show_output(o.value, project, workspace, args,
                                             for_scripting)
                 IN  IF out.ok THEN Exit(0, out.lines, <<>>)
                     ELSE Raise("IndexError: list index out of range", out.lines)
    /\ UNCHANGED <<argv, env, args, for_scripting, username, password, bbc,
                   prompts, executed, workspace, project, cr, created>>

-----------------------------------------------------------------------------
(* create_repository *)

\* Arguments a caller of the method may pass besides the wrappers: an object
\* of another type where a wrapper or a str is expected.
RawObject == [kind |-> "raw"]
NotAString == "<not a str>"

isinstance_project(p) == p.kind = "project"
isinstance_workspace(w) == w.kind = "workspace"
isinstance_str(v) == v # None /\ v # NotAString

\* Mutant of create_repository_checks: the fork policy is not checked.
create_repository_checks_no_policy(c) ==
    IF c.project = NoHandle THEN "ValueError: project is None"
    ELSE IF ~isinstance_project(c.project)
    THEN "TypeError: project is not an instance of BitbucketCLIProjectWrapper"
    ELSE IF c.workspace = NoHandle THEN "ValueError: workspace is None"
    ELSE IF ~isinstance_workspace(c.workspace)
    THEN "TypeError: workspace is not an instance of BitbucketCLIWorkspaceWrapper"
    ELSE IF c.repository_name = None THEN "ValueError: repository_name is None"
    ELSE IF ~isinstance_str(c.repository_name)
    THEN "TypeError: repository_name is not a string"
    ELSE None

\* Lines 448-461: the exception the checks raise, or None when they pass.
create_repository_checks(c) ==
    IF c.project = NoHandle THEN "ValueError: project is None"
    ELSE IF ~isinstance_project(c.project)
    THEN "TypeError: project is not an instance of BitbucketCLIProjectWrapper"
    ELSE IF c.workspace = NoHandle THEN "ValueError: workspace is None"
    ELSE IF ~isinstance_workspace(c.workspace)
    THEN "TypeError: workspace is not an instance of BitbucketCLIWorkspaceWrapper"
    ELSE IF c.repository_name = None THEN "ValueError: repository_name is None"
    ELSE IF ~isinstance_str(c.repository_name)
    THEN "TypeError: repository_name is not a string"
    ELSE IF c.fork_policy # None /\ c.fork_policy \notin FORK_POLICIES
    THEN "ValueError: fork_policy is not a valid value"
    ELSE None

\* The record of the remote create call, with the arguments of line 462.
CreateCall(c, ok) ==
    [ op |-> "repositories.create", ok |-> ok,
      name |-> c.repository_name, project_key |-> c.project.key,
      is_private |-> c.is_private, fork_policy |-> c.fork_policy ]

\* create_repository: the checks, then the remote create call.
create_repository ==
    /\ pc = "create_repository"
    /\ LET raised == create_repository_checks(cr)
       IN  IF raised # None
           THEN /\ Raise(raised, <<>>)
                /\ UNCHANGED <<calls, created>>
           ELSE \E o \in GetOutcomes(RepositoryRecords) :
                  /\ calls' = Append(calls, CreateCall(cr, o.ok))
                  /\ created' = o.value
                  /\ IF ~o.ok THEN Raise(RemoteError, <<>>)
                     ELSE /\ pc' = IF cr.caller = "cli" THEN "created" ELSE "returned"
                          /\ UNCHANGED <<exit_code, stdout, stderr>>
    /\ UNCHANGED <<argv, env, args, for_scripting, username, password, bbc,
                   prompts, executed, workspace, project, cr>>

\* __create_repository, lines 491-494: the confirmation.
create_repository_confirm ==
    /\ pc = "created"
    /\ IF created # NoHandle
       THEN Exit(0, create_confirmation(created, project, workspace, for_scripting), <<>>)
       ELSE Exit(0, <<>>, <<>>)
    /\ UNCHANGED <<argv, env, args, for_scripting, username, password, bbc,
                   prompts, calls, executed, workspace, project, cr, created>>

-----------------------------------------------------------------------------
(* Specifications *)

Next ==
    \/ parse_arguments
    \/ main
    \/ tests
    \/ workspace_cmd
    \/ project_cmd
    \/ project_cmd_action
    \/ repo_cmd
    \/ repo_cmd_project
    \/ repo_cmd_action
    \/ repo_show_cmd
    \/ create_repository
    \/ create_repository_confirm

\* One run of the program from main().
Spec == Init /\ [][Next]_vars

\* A direct call of create_repository on a constructed BitbucketCLI, with
\* arguments of the caller's choosing.
LibraryCalls ==
    [ caller : {"library"},
      project : {NoHandle, RawObject} \cup ProjectRecords,
      workspace : {NoHandle, RawObject} \cup WorkspaceRecords,
      repository_name : {None, NotAString, "", "newrepo"},
      is_private : {None, PyTrue, PyFalse},
      fork_policy : {None, "bogus"} \cup FORK_POLICIES ]

TestsArgv ==
    [ version |-> FALSE, user |-> None, password |-> None, for_scripting |-> FALSE,
      subcommand |-> "tests", list |-> FALSE, workspace |-> None, project |-> None,
      repository |-> None, repo_subcommand |-> None, show |-> {},
      visibility |-> {}, fork |-> {} ]

InitCreate ==
    /\ argv = TestsArgv
    /\ env \in EnvSet
    /\ pc = "create_repository"
    /\ args = Namespace(TestsArgv)
    /\ for_scripting = FALSE
    /\ username = PyOr(None, env.BITBUCKET_USER)
    /\ password = PyOr(None, env.BITBUCKET_PASSWORD)
    /\ bbc = NoClient
    /\ prompts = 0
    /\ calls = <<>>
    /\ executed = <<>>
    /\ workspace = NoHandle
    /\ project = NoHandle
    /\ cr \in LibraryCalls
    /\ created = NoHandle
    /\ stdout = <<>>
    /\ stderr = <<>>
    /\ exit_code = <<>>

NextCreate == create_repository

SpecCreate == InitCreate /\ [][NextCreate]_vars

-----------------------------------------------------------------------------
(* Properties *)

RepoCommand(a) == a.subcommand \in {"repository", "repo"}

\* The constraints of the argument grammar a command line can violate.
NoSubcommand(a) == a.subcommand = None
ListNameViolation(a) ==
    \/ a.subcommand = "workspace" /\ (a.list <=> a.workspace # None)
    \/ a.subcommand = "project" /\ (a.list <=> a.project # None)
    \/ RepoCommand(a) /\ (a.list <=> a.repository # None)
MissingRequired(a) ==
    \/ a.subcommand = "project" /\ a.workspace = None
    \/ RepoCommand(a) /\ (a.workspace = None \/ a.project = None)
VisibilityViolation(a) == {"public", "private"} \subseteq a.visibility
ForkViolation(a) == Cardinality(a.fork) > 1
ShowFlagViolation(a) == a.show # {} /\ a.repository = None
MissingAction(a) ==
    RepoCommand(a) /\ a.repository # None /\ a.repo_subcommand = None

ViolatesGrammar(a) ==
    \/ NoSubcommand(a)
    \/ ListNameViolation(a)
    \/ MissingRequired(a)
    \/ VisibilityViolation(a)
    \/ ForkViolation(a)
    \/ ShowFlagViolation(a)
    \/ MissingAction(a)

NothingStarted == bbc = NoClient /\ calls = <<>> /\ prompts = 0

\* C1 as stated: every command line that violates a constraint of the
\* argument grammar ends construction in the parser's error exit (status
\* 2), with no client created, no remote call made and no password prompt.
C1_ViolationAlwaysErrorExit ==
    (pc # "init" /\ ViolatesGrammar(argv)) =>
        (pc = "exit" /\ exit_code = <<2>> /\ NothingStarted)

\* C1, amended: a command line that violates a constraint of the argument
\* grammar ends construction with no client created, no remote call made
\* and no password prompt; the exit is the parser's error exit (status 2)
\* unless --version precedes the subcommand, and then it is the version
\* exit (status 0).
C1_ViolationErrorExitUnlessVersion ==
    (pc # "init" /\ ViolatesGrammar(argv)) =>
        /\ pc = "exit"
        /\ NothingStarted
        /\ exit_code = IF argv.version THEN <<0>> ELSE <<2>>
        /\ ~argv.version => stderr # <<>> /\ stdout = <<>>

\* C1 witness: a show detail flag without --repository, credentials given,
\* rejected by the check made after parse_args.
C1_Witness ==
    /\ pc = "exit" /\ exit_code = <<2>>
    /\ ~argv.version /\ RepoCommand(argv) /\ argv.list
    /\ argv.workspace # None /\ argv.project # None
    /\ argv.repo_subcommand = "show" /\ argv.show = {"https_url"}
    /\ username = "alice" /\ password = None
    /\ NothingStarted

NoLabels(out) == \A i \in 1..Len(out) : out[i].label = "" /\ out[i].suffix = ""

\* C2: the render mode is the one --for-scripting selects: once
\* construction has succeeded the mode equals the flag, and in a run with
\* the flag given no printed line carries a label prefix or an ancestor
\* suffix.
C2_ModeFollowsFlag ==
    /\ pc \notin {"init", "exit"} => for_scripting = args.for_scripting
    /\ args.for_scripting => NoLabels(stdout)

FlagFirst(flag, environment) == IF flag # None THEN flag ELSE environment

NonEmptyFlagFirst(flag, environment) ==
    IF flag # None /\ flag # "" THEN flag ELSE environment

NoUsername == argv.user = None /\ env.BITBUCKET_USER = None
ArgumentError == pc = "exit" /\ exit_code = <<2>> /\ stderr # <<>>

\* C4 as stated: with no username from flag or environment, every
\* subcommand other than tests ends in the argument error exit without a
\* prompt; the tests subcommand raises no error and never prompts, whatever
\* the credentials.
C4_NoUsernameIsFatal ==
    pc # "init" =>
        /\ (NoUsername /\ argv.subcommand \in Subcommands \ {"tests"}) =>
              ArgumentError /\ prompts = 0
        /\ argv.subcommand = "tests" => ~ArgumentError /\ prompts = 0

\* C4, amended: the same, except that a --version before the subcommand
\* ends the run with status 0 before credentials are looked at (still
\* without a prompt).
C4_NoUsernameIsFatalUnlessVersion ==
    pc # "init" =>
        /\ (NoUsername /\ argv.subcommand \in Subcommands \ {"tests"}) =>
              /\ prompts = 0
              /\ IF argv.version THEN pc = "exit" /\ exit_code = <<0>>
                 ELSE ArgumentError
        /\ argv.subcommand = "tests" => ~ArgumentError /\ prompts = 0

\* C4 witness: an otherwise valid workspace listing with no username and no
\* password anywhere, ended by the username error before any prompt.
C4_Witness ==
    /\ NoUsername /\ ~argv.version
    /\ argv.subcommand = "workspace" /\ argv.list /\ argv.workspace = None
    /\ argv.password = None /\ env.BITBUCKET_PASSWORD = None
    /\ ArgumentError /\ prompts = 0 /\ args.subcommand = "workspace"

\* The row of the dispatch table a parsed command line selects.
DispatchRow(n) ==
    IF n.subcommand = "tests" THEN "tests"
    ELSE IF n.subcommand = "workspace" /\ n.list THEN "list workspaces"
    ELSE IF n.subcommand = "workspace" /\ n.workspace # None THEN "workspace summary"
    ELSE IF n.subcommand = "project" /\ n.list THEN "list projects"
    ELSE IF n.subcommand = "project" /\ n.project # None THEN "project summary"
    ELSE IF RepoCommand(n) /\ n.list THEN "list repositories"
    ELSE IF RepoCommand(n) /\ n.repository # None /\ n.repo_subcommand = "show"
    THEN "show repository"
    ELSE IF RepoCommand(n) /\ n.repository # None /\ n.repo_subcommand = "create"
    THEN "create repository"
    ELSE "none"

\* C5: a run enters at most one action of the dispatch table, and only the
\* one its parsed (subcommand, flags) select; a run that was parsed and
\* ends with status 0 has entered exactly that one.
C5_ExactlyOneDispatchedAction ==
    /\ Len(executed) <= 1
    /\ \A i \in 1..Len(executed) : executed[i] = DispatchRow(args)
    /\ (pc = "exit" /\ exit_code = <<0>> /\ args # NoArgs) =>
          executed = <<DispatchRow(args)>>

\* C5 witness: repository --list followed by a create action has listed,
\* and has not created.
C5_Witness ==
    /\ pc = "exit" /\ exit_code = <<0>>
    /\ args.list /\ args.repo_subcommand = "create"
    /\ executed = <<"list repositories">>
    /\ Len(calls) = 3 /\ calls[3].op = "repositories.each"

ProjectLevel == {"projects.get", "projects.each"}
RepositoryLevel == {"repositories.get", "repositories.each", "repositories.create"}

Succeeded(op, before) == \E j \in 1..(before - 1) : calls[j].op = op /\ calls[j].ok

\* C6: a project lookup or enumeration is issued only after the workspace
\* lookup of the run succeeded; a repository lookup, enumeration or creation
\* only after the workspace lookup and the project lookup succeeded; and a
\* call that failed is the last call of the run.
C6_HierarchicalResolution ==
    \A i \in 1..Len(calls) :
        /\ calls[i].op \in ProjectLevel \cup RepositoryLevel =>
              Succeeded("workspaces.get", i)
        /\ calls[i].op \in RepositoryLevel => Succeeded("projects.get", i)
        /\ ~calls[i].ok => i = Len(calls)

\* C6 witness: a repository lookup issued third, after both lookups.
C6_Witness ==
    /\ Len(calls) = 3
    /\ calls[1] = Call("workspaces.get", TRUE)
    /\ calls[2] = Call("projects.get", TRUE)
    /\ calls[3] = Call("repositories.get", TRUE)

ReadOnly == {"workspaces.each", "workspaces.get", "projects.each", "projects.get",
             "repositories.each", "repositories.get"}

Creations == {i \in 1..Len(calls) : calls[i].op = "repositories.create"}

\* C7: every remote call is read-only except repository creation, which is
\* issued at most once and only when the subcommand is repository/repo with
\* --repository NAME (not --list) and the nested action create.
C7_OnlyCreateMutates ==
    /\ \A i \in 1..Len(calls) : calls[i].op \in ReadOnly \cup {"repositories.create"}
    /\ Cardinality(Creations) <= 1
    /\ Creations # {} =>
          /\ RepoCommand(args)
          /\ args.repository # None /\ ~args.list
          /\ args.repo_subcommand = "create"

\* C7 witness: the creation call was issued in a repo create run.
C7_Witness ==
    /\ Creations = {3}
    /\ args.subcommand = "repo" /\ args.repo_subcommand = "create"
    /\ args.repository = "newrepo"

\* The parameters the create flags stand for.
VisibilityOf(a) ==
    IF "private" \in a.visibility THEN PyTrue
    ELSE IF "public" \in a.visibility THEN PyFalse
    ELSE None
ForkPolicyOf(a) ==
    IF a.fork = {"allow_forks"} THEN "allow_forks"
    ELSE IF a.fork = {"no_allow_forks"} THEN "no_forks"
    ELSE IF a.fork = {"no_public_forks"} THEN "no_public_forks"
    ELSE None

\* C8: the remote creation call carries the visibility and fork policy the
\* flags stand for, the --repository value as name and the key of the
\* resolved project; a run whose creation succeeded ends having printed one
\* confirmation naming the repository, the project and the workspace.
C8_CreateParameters ==
    \A i \in Creations :
        /\ calls[i].is_private = VisibilityOf(argv)
        /\ calls[i].fork_policy = ForkPolicyOf(argv)
        /\ calls[i].name = argv.repository
        /\ calls[i].project_key = project.key
        /\ (calls[i].ok /\ pc = "exit") =>
              /\ exit_code = <<0>>
              /\ Len(stdout) = 1
              /\ stdout[1].label = "Repository: "
              /\ stdout[1].value = created.name
              /\ stdout[1].suffix = " created in Project: " \o project.name
                                    \o " in Workspace: " \o workspace.name

\* C8 witness: create --private --no-allow-forks, created and confirmed.
C8_Witness ==
    /\ pc = "exit" /\ exit_code = <<0>>
    /\ argv.visibility = {"private"} /\ argv.fork = {"no_allow_forks"}
    /\ Creations = {3}
    /\ calls[3].is_private = PyTrue /\ calls[3].fork_policy = NO_FORKS
    /\ Len(stdout) = 1

ValidHandles(c) == c.project \in ProjectRecords /\ c.workspace \in WorkspaceRecords
ValidName(c) == c.repository_name \notin {None, NotAString, ""}
Returned == pc # "create_repository"

\* C9: create_repository with a fork policy that is neither None nor one of
\* the three tokens raises and issues no remote create call; with None or a
\* token, valid handles and a valid name it issues the call exactly once.
C9_ForkPolicyCheckedFirst ==
    Returned =>
        /\ cr.fork_policy \notin FORK_POLICIES \cup {None} =>
              /\ Creations = {}
              /\ pc = "exit" /\ exit_code = <<1>>
        /\ (cr.fork_policy \in FORK_POLICIES \cup {None}
            /\ ValidHandles(cr) /\ ValidName(cr)) =>
              Cardinality(Creations) = 1 /\ Len(calls) = 1

\* C9 witness: an unknown policy with everything else valid was refused.
C9_Witness ==
    /\ Returned
    /\ cr.fork_policy = "bogus" /\ ValidHandles(cr) /\ ValidName(cr)
    /\ calls = <<>> /\ exit_code = <<1>>

\* C10: create_repository raises, before any remote create call, whenever
\* the repository name is None or empty or the project or workspace handle
\* is None.
C10_PreconditionsChecked ==
    (Returned /\ (\/ cr.repository_name = None
                  \/ cr.repository_name = ""
                  \/ cr.project = NoHandle
                  \/ cr.workspace = NoHandle)) =>
        /\ calls = <<>>
        /\ pc = "exit" /\ exit_code = <<1>>

\* A repository/repo command line that is complete up to the nested action:
\* no --version, both ancestors named, a username available.
RepoRun(a) ==
    /\ RepoCommand(a) /\ ~a.version
    /\ a.workspace # None /\ a.project # None
    /\ PyOr(a.user, env.BITBUCKET_USER) # None

ListsRepositories ==
    /\ ~ArgumentError
    /\ \A i \in 1..Len(executed) : executed[i] = "list repositories"
    /\ \A i \in 1..Len(calls) : calls[i].op # "repositories.create"
    /\ (pc = "exit" /\ exit_code = <<0>>) => executed = <<"list repositories">>

\* C11 as stated: the nested action is mandatory exactly when --repository
\* NAME is given (omitting it is an argument error); with --list the run is
\* accepted and lists the repositories whether or not a nested show or
\* create, with any of its flags, follows.
C11_ListIgnoresNestedAction ==
    (pc # "init" /\ RepoRun(argv)) =>
        /\ (argv.repository # None /\ ~argv.list /\ argv.repo_subcommand = None)
              => ArgumentError
        /\ (argv.list /\ argv.repository = None) => ListsRepositories

\* C11, amended: the nested action is mandatory exactly when --repository
\* NAME is given; with --list the run is accepted and lists the repositories
\* when no nested action follows, when show follows without a detail flag,
\* or when create follows with flags that do not conflict; show with a
\* detail flag, or create with conflicting flags, after --list is an
\* argument error.
C11_ListIgnoresFlaglessAction ==
    (pc # "init" /\ RepoRun(argv)) =>
        /\ (argv.repository # None /\ ~argv.list /\ argv.repo_subcommand = None)
              => ArgumentError
        /\ (argv.list /\ argv.repository = None) =>
              IF argv.show = {} /\ ~VisibilityViolation(argv) /\ ~ForkViolation(argv)
              THEN ListsRepositories
              ELSE ArgumentError /\ NothingStarted

\* C11 witness: repository --list followed by show (no detail flag) has
\* listed the repositories.
C11_Witness ==
    /\ pc = "exit" /\ exit_code = <<0>>
    /\ RepoRun(argv) /\ argv.list /\ argv.repo_subcommand = "show"
    /\ executed = <<"list repositories">>
    /\ Len(stdout) = 2

\* The show action has looked the repository up and has ended.
ShowEnded ==
    /\ pc = "exit" /\ executed = <<"show repository">>
    /\ calls # <<>>
    /\ calls[Len(calls)] = Call("repositories.get", TRUE)

ShowHeader(r) ==
    <<Line("Repository: ", r.name,
           " in Project: " \o project.name \o " in Workspace: " \o workspace.name)>>

\* The detail fields of r that the flags ask for, in the documented order.
RequestedDetails(r) ==
    (IF args.links
     THEN <<Line("Link: ", "self -> " \o LinkTarget(r, "self"), ""),
            Line("Link: ", "clone -> " \o LinkTarget(r, "clone"), "")>>
     ELSE <<>>)
    \o (IF args.https_url THEN <<Line("HTTPS URL: ", r.clone[1], "")>> ELSE <<>>)
    \o (IF args.ssh_url THEN <<Line("SSH URL: ", r.clone[2], "")>> ELSE <<>>)

HasRequestedLinks(r) ==
    /\ args.https_url => Len(r.clone) >= 1
    /\ args.ssh_url => Len(r.clone) >= 2

\* C12: a show run that found its repository prints, after the heading line,
\* the usage help and exits zero when none of --links/--https-url/--ssh-url
\* is set; with at least one of them set the usage help is not printed and
\* exactly the requested fields are printed: the links, then the HTTPS URL
\* (first clone link), then the SSH URL (second clone link), for a
\* repository that has the clone links asked for.
C12_ShowDetails ==
    ShowEnded =>
        \E r \in RepositoryRecords :
            IF ~args.links /\ ~args.https_url /\ ~args.ssh_url
            THEN /\ stdout = ShowHeader(r) \o <<HelpLine>>
                 /\ exit_code = <<0>>
            ELSE /\ \A i \in 1..Len(stdout) : stdout[i] # HelpLine
                 /\ IF HasRequestedLinks(r)
                    THEN /\ stdout = ShowHeader(r) \o RequestedDetails(r)
                         /\ exit_code = <<0>>
                    ELSE exit_code = <<1>>

\* C12 witness: show --links --ssh-url has printed the heading, the two
\* links and the SSH URL of the repository.
C12_Witness ==
    /\ ShowEnded /\ exit_code = <<0>>
    /\ args.links /\ ~args.https_url /\ args.ssh_url
    /\ Len(stdout) = 4
    /\ stdout[4] = Line("SSH URL: ", "git@bitbucket.org:team-a/newrepo.git", "")

\* C13: every argument-validation error message and every emission of the
\* usage help goes to standard error and never to standard output: a run
\* ended by an argument error has written its message to standard error and
\* nothing to standard output, and the usage help printed by the dispatcher
\* (show without a detail flag, or a fallback branch) is not a line of
\* standard output.
C13_HelpAndErrorsOnStderr ==
    /\ exit_code = <<2>> => (stdout = <<>> /\ stderr # <<>>)
    /\ \A i \in 1..Len(stdout) : stdout[i] # HelpLine

\* A run that entered only the table action what and returned normally.
Completed(what) == pc = "exit" /\ exit_code = <<0>> /\ executed = <<what>>

\* human is what the run printed; script is what the same routine prints for
\* the same records in scripting mode: as many lines, each the bare value,
\* the human line being label, bare value, ancestor suffix.
ModesRelated(items, human, script, bare(_), label, suffix) ==
    /\ stdout = human
    /\ Len(script) = Len(human)
    /\ \A i \in 1..Len(items) :
         /\ Text(script[i]) = bare(items[i])
         /\ Text(human[i]) = label \o bare(items[i]) \o suffix

\* C14: for an identical result set each output routine emits the same
\* number of lines in the same order in both modes, the scripting line
\* being exactly the bare value and the human line the label, the bare
\* value and the ancestor suffix (repository list: 'Repository: <name>
\* (<slug>) in Project: <pname> (<pkey>) in Workspace: <wname> (<wslug>)'
\* versus '<name> (<slug>)').
C14_ModesRelatedLineByLine ==
    /\ Completed("list workspaces") =>
         \E items \in SeqUpTo(WorkspaceRecords, MaxItems) :
            ModesRelated(items, Map(items, list_workspaces_line),
                         Map(items, list_workspaces_line),
                         NameSlug, "Workspace: ", "")
    /\ Completed("list projects") =>
         \E items \in SeqUpTo(ProjectRecords, MaxItems) :
            ModesRelated(items,
                         Map(items, LAMBDA p : list_projects_line(p, FALSE)),
                         Map(items, LAMBDA p : list_projects_line(p, TRUE)),
                         NameKey, "Project: ", "")
    /\ Completed("list repositories") =>
         \E items \in SeqUpTo(RepositoryRecords, MaxItems) :
            ModesRelated(items,
                         Map(items, LAMBDA r : list_repositories_line(
                                                  r, project, workspace, FALSE)),
                         Map(items, LAMBDA r : list_repositories_line(
                                                  r, project, workspace, TRUE)),
                         NameSlug, "Repository: ",
                         " in Project: " \o NameKey(project)
                             \o " in Workspace: " \o NameSlug(workspace))
    /\ Completed("workspace summary") =>
         /\ stdout = workspace_summary(workspace, FALSE)
         /\ Len(workspace_summary(workspace, TRUE)) = Len(stdout)
    /\ Completed("project summary") =>
         /\ stdout = project_summary(project, FALSE)
         /\ Len(project_summary(project, TRUE)) = Len(stdout)

\* The messages of the error branches of project_cmd and repo_cmd.
RequiredForOperations ==
    { "Error: --workspace (-w) is required for project operations!",
      "Error: --workspace (-w) is required for repository operations!",
      "Error: --project (-P) is required for repository operations!" }

ExactlyOne(list, name) == list # (name # None)

\* C15: after a successful parse, args has exactly one of --list and the
\* name flag for workspace, project and repository, the required ancestor
\* names are not None, and repository with --repository NAME has show or
\* create as nested action; so the usage help is printed only by show
\* without a detail flag (never by a fallback branch of workspace_cmd,
\* project_cmd, repo_cmd or main_program), and the '--workspace/--project
\* is required for ... operations' errors are never reported.
C15_ParsedArgsWellFormed ==
    /\ args # NoArgs =>
         /\ args.subcommand \in Subcommands
         /\ args.subcommand = "workspace" => ExactlyOne(args.list, args.workspace)
         /\ args.subcommand = "project" =>
              /\ args.workspace # None
              /\ ExactlyOne(args.list, args.project)
         /\ args.subcommand \in {"repository", "repo"} =>
              /\ args.workspace # None /\ args.project # None
              /\ ExactlyOne(args.list, args.repository)
              /\ args.repository # None => args.repo_subcommand \in RepoSubcommands
    /\ \A i \in 1..Len(stdout) :
         stdout[i] = HelpLine =>
            /\ executed = <<"show repository">>
            /\ ~args.links /\ ~args.https_url /\ ~args.ssh_url
    /\ \A i \in 1..Len(stderr) : stderr[i].value \notin RequiredForOperations

\* C15 witness: a parsed repository --repository NAME create run has passed
\* both ancestor lookups and reached the nested-action dispatch.
C15_Witness ==
    /\ pc = "repo_cmd_action"
    /\ args # NoArgs /\ args.subcommand = "repo"
    /\ ~args.list /\ args.repository # None
    /\ args.repo_subcommand = "create"
    /\ workspace # NoHandle /\ project # NoHandle

====
